---- MODULE Spec2Model ----
(***************************************************************************)
(* A model of the range_ranger crate: the bound comparison of bounds.rs,   *)
(* the ContinuousRange operations of continuous.rs, the RangesRelation     *)
(* queries of relation.rs and simplify_ranges of simplify.rs.              *)
(*                                                                         *)
(* The element type Idx is a totally ordered integer type (the tests use   *)
(* i32 and u8), so partial_cmp on two values is always Some.               *)
(***************************************************************************)
EXTENDS Integers, Sequences, FiniteSets, TLC

\* ------------------------------------------------------------------------
\* Bounds of the model
\* ------------------------------------------------------------------------

\* Values of the operands of the pairwise operations are 0 .. MaxVal.
MaxVal == 2

\* Values of the elements handed to simplify_ranges are 0 .. MaxIdx.
MaxIdx == 1

\* Longest sequence handed to simplify_ranges.
MaxLen == 2

\* ------------------------------------------------------------------------
\* Option<T>, and the outcome of a call that panics
\* ------------------------------------------------------------------------

None == [tag |-> "None"]

Some(x) == [tag |-> "Some", val |-> x]

\* The call did not return: a panic!, or an expect on an absent value.
Panic == [tag |-> "Panic"]

is_some(o) == o.tag = "Some"

\* ------------------------------------------------------------------------
\* bounds.rs
\* ------------------------------------------------------------------------

\* std::ops::Bound
Included(x) == [b |-> "Included", v |-> x]

Excluded(x) == [b |-> "Excluded", v |-> x]

Unbounded == [b |-> "Unbounded"]

BoundSide == {"Start", "End"}

BoundOrdering == {"Meets", "Less", "Equal", "Greater", "IsMet"}

\* Idx::partial_cmp for an integer element type.
partial_cmp(x, y) ==
    IF x < y THEN Some("Less")
    ELSE IF x = y THEN Some("Equal")
    ELSE Some("Greater")

\* The match on (this_side, other_side) at equal values, Included vs Excluded.
SideIncludedExcluded(this_side, other_side) ==
    CASE this_side = "Start" /\ other_side = "Start" -> Some("Less")
      [] this_side = "End" /\ other_side = "End" -> Some("Greater")
      [] this_side = "Start" /\ other_side = "End" -> Some("IsMet")
      [] this_side = "End" /\ other_side = "Start" -> Some("Meets")

\* A change to SideExcludedIncluded: the arms of the Included vs Excluded
\* match, copied without reversing Less and Greater.
SideExcludedIncludedCopied(this_side, other_side) ==
    SideIncludedExcluded(this_side, other_side)

\* The match on (this_side, other_side) at equal values, Excluded vs Included.
SideExcludedIncluded(this_side, other_side) ==
    CASE this_side = "Start" /\ other_side = "Start" -> Some("Greater")
      [] this_side = "End" /\ other_side = "End" -> Some("Less")
      [] this_side = "Start" /\ other_side = "End" -> Some("IsMet")
      [] this_side = "End" /\ other_side = "Start" -> Some("Meets")

\* A change to SideExcludedExcluded: an excluded end at the value of an
\* excluded start meets it.
SideExcludedExcludedMeets(this_side, other_side) ==
    CASE this_side = "Start" /\ other_side = "Start" -> Some("Equal")
      [] this_side = "End" /\ other_side = "End" -> Some("Equal")
      [] this_side = "Start" /\ other_side = "End" -> Some("IsMet")
      [] this_side = "End" /\ other_side = "Start" -> Some("Meets")

\* The match on (this_side, other_side) at equal values, Excluded vs Excluded.
SideExcludedExcluded(this_side, other_side) ==
    CASE this_side = "Start" /\ other_side = "Start" -> Some("Equal")
      [] this_side = "End" /\ other_side = "End" -> Some("Equal")
      [] this_side = "Start" /\ other_side = "End" -> Some("Greater")
      [] this_side = "End" /\ other_side = "Start" -> Some("Less")

\* A change to SideUnboundedUnbounded: the two mixed arms change places.
SideUnboundedUnboundedSwapped(this_side, other_side) ==
    CASE this_side = "Start" /\ other_side = "Start" -> Some("Equal")
      [] this_side = "End" /\ other_side = "End" -> Some("Equal")
      [] this_side = "Start" /\ other_side = "End" -> Some("Greater")
      [] this_side = "End" /\ other_side = "Start" -> Some("Less")

\* The match on (this_side, other_side), Unbounded vs Unbounded.
SideUnboundedUnbounded(this_side, other_side) ==
    CASE this_side = "Start" /\ other_side = "Start" -> Some("Equal")
      [] this_side = "End" /\ other_side = "End" -> Some("Equal")
      [] this_side = "Start" /\ other_side = "End" -> Some("Less")
      [] this_side = "End" /\ other_side = "Start" -> Some("Greater")

partial_cmp_bounds(this, this_side, other, other_side) ==
    CASE this.b = "Included" ->
           (CASE other.b = "Included" -> partial_cmp(this.v, other.v)
              [] other.b = "Excluded" ->
                   IF partial_cmp(this.v, other.v) = Some("Equal")
                   THEN SideIncludedExcluded(this_side, other_side)
                   ELSE partial_cmp(this.v, other.v)
              [] other.b = "Unbounded" ->
                   IF other_side = "Start" THEN Some("Greater") ELSE Some("Less"))
      [] this.b = "Excluded" ->
           (CASE other.b = "Included" ->
                   IF partial_cmp(this.v, other.v) = Some("Equal")
                   THEN SideExcludedIncluded(this_side, other_side)
                   ELSE partial_cmp(this.v, other.v)
              [] other.b = "Excluded" ->
                   IF partial_cmp(this.v, other.v) = Some("Equal")
                   THEN SideExcludedExcluded(this_side, other_side)
                   ELSE partial_cmp(this.v, other.v)
              [] other.b = "Unbounded" ->
                   IF other_side = "Start" THEN Some("Greater") ELSE Some("Less"))
      [] this.b = "Unbounded" ->
           (CASE other.b \in {"Included", "Excluded"} ->
                   IF this_side = "Start" THEN Some("Less") ELSE Some("Greater")
              [] other.b = "Unbounded" ->
                   SideUnboundedUnbounded(this_side, other_side))

\* bound is an Option<Bound>; the value of a finite bound, a panic otherwise.
expect_bound(bound) ==
    IF ~is_some(bound) THEN Panic
    ELSE IF bound.val.b = "Unbounded" THEN Panic
    ELSE Some(bound.val.v)

reverse_bound(bound) ==
    CASE bound.b = "Included" -> Excluded(bound.v)
      [] bound.b = "Excluded" -> Included(bound.v)
      [] bound.b = "Unbounded" -> Unbounded

\* ------------------------------------------------------------------------
\* relation.rs
\* ------------------------------------------------------------------------

RangesRelation ==
    {"StrictlyBefore", "StrictlyAfter", "Meets", "IsMet", "Overlaps",
     "IsOverlapped", "Starts", "IsStarted", "StrictlyContains",
     "IsStrictlyContained", "Finishes", "IsFinished", "Equal"}

\* RangesRelation::intersects
relation_intersects(r) == r \notin {"StrictlyBefore", "StrictlyAfter"}

\* RangesRelation::disjoint
relation_disjoint(r) == ~relation_intersects(r)

\* A change to relation_contains: Starts is listed in place of IsStarted.
relation_contains_starts(r) ==
    r \in {"Equal", "StrictlyContains", "IsFinished", "Starts"}

\* RangesRelation::contains
relation_contains(r) ==
    r \in {"Equal", "StrictlyContains", "IsFinished", "IsStarted"}

\* A change to start_ordering: IsFinished and Finishes change places.
start_ordering_finishes_less(r) ==
    CASE r \in {"StrictlyBefore", "Meets", "Overlaps", "StrictlyContains",
                "Finishes"} -> "Less"
      [] r \in {"StrictlyAfter", "IsMet", "IsOverlapped", "IsStrictlyContained",
                "IsFinished"} -> "Greater"
      [] r \in {"Starts", "IsStarted", "Equal"} -> "Equal"

start_ordering(r) ==
    CASE r \in {"StrictlyBefore", "Meets", "Overlaps", "StrictlyContains",
                "IsFinished"} -> "Less"
      [] r \in {"StrictlyAfter", "IsMet", "IsOverlapped", "IsStrictlyContained",
                "Finishes"} -> "Greater"
      [] r \in {"Starts", "IsStarted", "Equal"} -> "Equal"

end_ordering(r) ==
    CASE r \in {"StrictlyBefore", "Meets", "Overlaps", "Starts",
                "IsStrictlyContained"} -> "Less"
      [] r \in {"StrictlyAfter", "IsMet", "IsOverlapped", "IsStarted",
                "StrictlyContains"} -> "Greater"
      [] r \in {"Finishes", "IsFinished", "Equal"} -> "Equal"

\* ------------------------------------------------------------------------
\* continuous.rs: the variants of ContinuousRange<Idx>
\* ------------------------------------------------------------------------

Empty == [k |-> "Empty"]

Single(value) == [k |-> "Single", v |-> value]

Inclusive(start, end) == [k |-> "Inclusive", s |-> start, e |-> end]

Exclusive(start, end) == [k |-> "Exclusive", s |-> start, e |-> end]

StartExclusive(start, end) == [k |-> "StartExclusive", s |-> start, e |-> end]

EndExclusive(start, end) == [k |-> "EndExclusive", s |-> start, e |-> end]

From(start) == [k |-> "From", s |-> start]

FromExclusive(start) == [k |-> "FromExclusive", s |-> start]

To(end) == [k |-> "To", e |-> end]

ToExclusive(end) == [k |-> "ToExclusive", e |-> end]

Full == [k |-> "Full"]

\* Every value of ContinuousRange<Idx> with its values in vals; the two-value
\* variants are public, so start > end can be built.
ContinuousRange(vals) ==
    {Empty, Full}
    \cup {Single(x) : x \in vals}
    \cup {Inclusive(x, y) : x \in vals, y \in vals}
    \cup {Exclusive(x, y) : x \in vals, y \in vals}
    \cup {StartExclusive(x, y) : x \in vals, y \in vals}
    \cup {EndExclusive(x, y) : x \in vals, y \in vals}
    \cup {From(x) : x \in vals}
    \cup {FromExclusive(x) : x \in vals}
    \cup {To(x) : x \in vals}
    \cup {ToExclusive(x) : x \in vals}

\* ------------------------------------------------------------------------
\* continuous.rs: constructors and accessors
\* ------------------------------------------------------------------------

inclusive(start, end) ==
    IF start = end THEN Single(start)
    ELSE IF start > end THEN Empty
    ELSE Inclusive(start, end)

exclusive(start, end) ==
    IF start >= end THEN Empty ELSE Exclusive(start, end)

start_exclusive(start, end) ==
    IF start >= end THEN Empty ELSE StartExclusive(start, end)

\* A change to end_exclusive: start == end is not seen as empty.
end_exclusive_strict(start, end) ==
    IF start > end THEN Empty ELSE EndExclusive(start, end)

end_exclusive(start, end) ==
    IF start >= end THEN Empty ELSE EndExclusive(start, end)

\* A change to from_bounds: an included start with an excluded end builds
\* the inclusive range.
from_bounds_closed(bounds) ==
    LET start == bounds[1]
        end == bounds[2]
    IN CASE start.b = "Unbounded" /\ end.b = "Unbounded" -> Full
         [] start.b = "Included" /\ end.b = "Included" -> inclusive(start.v, end.v)
         [] start.b = "Included" /\ end.b = "Excluded" -> inclusive(start.v, end.v)
         [] start.b = "Included" /\ end.b = "Unbounded" -> From(start.v)
         [] start.b = "Excluded" /\ end.b = "Included" -> start_exclusive(start.v, end.v)
         [] start.b = "Excluded" /\ end.b = "Excluded" -> exclusive(start.v, end.v)
         [] start.b = "Excluded" /\ end.b = "Unbounded" -> FromExclusive(start.v)
         [] start.b = "Unbounded" /\ end.b = "Included" -> To(end.v)
         [] start.b = "Unbounded" /\ end.b = "Excluded" -> ToExclusive(end.v)

\* bounds is the pair <<start bound, end bound>>.
from_bounds(bounds) ==
    LET start == bounds[1]
        end == bounds[2]
    IN CASE start.b = "Unbounded" /\ end.b = "Unbounded" -> Full
         [] start.b = "Included" /\ end.b = "Included" -> inclusive(start.v, end.v)
         [] start.b = "Included" /\ end.b = "Excluded" -> end_exclusive(start.v, end.v)
         [] start.b = "Included" /\ end.b = "Unbounded" -> From(start.v)
         [] start.b = "Excluded" /\ end.b = "Included" -> start_exclusive(start.v, end.v)
         [] start.b = "Excluded" /\ end.b = "Excluded" -> exclusive(start.v, end.v)
         [] start.b = "Excluded" /\ end.b = "Unbounded" -> FromExclusive(start.v)
         [] start.b = "Unbounded" /\ end.b = "Included" -> To(end.v)
         [] start.b = "Unbounded" /\ end.b = "Excluded" -> ToExclusive(end.v)

start_bound(self) ==
    CASE self.k = "Empty" -> None
      [] self.k = "Single" -> Some(Included(self.v))
      [] self.k \in {"Inclusive", "EndExclusive", "From"} -> Some(Included(self.s))
      [] self.k \in {"Exclusive", "StartExclusive", "FromExclusive"} ->
           Some(Excluded(self.s))
      [] self.k \in {"To", "ToExclusive", "Full"} -> Some(Unbounded)

end_bound(self) ==
    CASE self.k = "Empty" -> None
      [] self.k = "Single" -> Some(Included(self.v))
      [] self.k \in {"Inclusive", "StartExclusive", "To"} -> Some(Included(self.e))
      [] self.k \in {"Exclusive", "EndExclusive", "ToExclusive"} ->
           Some(Excluded(self.e))
      [] self.k \in {"From", "FromExclusive", "Full"} -> Some(Unbounded)

range_bounds(self) ==
    CASE self.k = "Empty" -> None
      [] self.k = "Single" -> Some(<<Included(self.v), Included(self.v)>>)
      [] self.k = "Inclusive" -> Some(<<Included(self.s), Included(self.e)>>)
      [] self.k = "Exclusive" -> Some(<<Excluded(self.s), Excluded(self.e)>>)
      [] self.k = "StartExclusive" -> Some(<<Excluded(self.s), Included(self.e)>>)
      [] self.k = "EndExclusive" -> Some(<<Included(self.s), Excluded(self.e)>>)
      [] self.k = "From" -> Some(<<Included(self.s), Unbounded>>)
      [] self.k = "FromExclusive" -> Some(<<Excluded(self.s), Unbounded>>)
      [] self.k = "To" -> Some(<<Unbounded, Included(self.e)>>)
      [] self.k = "ToExclusive" -> Some(<<Unbounded, Excluded(self.e)>>)
      [] self.k = "Full" -> Some(<<Unbounded, Unbounded>>)

contains(self, value) ==
    CASE self.k = "Empty" -> FALSE
      [] self.k = "Single" -> self.v = value
      [] self.k = "Inclusive" -> value >= self.s /\ value <= self.e
      [] self.k = "Exclusive" -> value > self.s /\ value < self.e
      [] self.k = "StartExclusive" -> value > self.s /\ value <= self.e
      [] self.k = "EndExclusive" -> value >= self.s /\ value < self.e
      [] self.k = "From" -> value >= self.s
      [] self.k = "FromExclusive" -> value > self.s
      [] self.k = "To" -> value <= self.e
      [] self.k = "ToExclusive" -> value < self.e
      [] self.k = "Full" -> TRUE

is_empty(self) ==
    CASE self.k = "Empty" -> TRUE
      [] self.k = "Inclusive" -> self.s > self.e
      [] self.k \in {"Exclusive", "StartExclusive", "EndExclusive"} ->
           self.s >= self.e
      [] OTHER -> FALSE

is_full(self) == self.k = "Full"

\* A change to simplify: the arm Inclusive(start, end) if start == end is
\* missing.
simplify_no_single(self) ==
    CASE self.k = "Inclusive" /\ self.s > self.e -> Empty
      [] self.k \in {"Exclusive", "StartExclusive", "EndExclusive"}
           /\ self.s >= self.e -> Empty
      [] OTHER -> self

simplify(self) ==
    CASE self.k = "Inclusive" /\ self.s = self.e -> Single(self.s)
      [] self.k = "Inclusive" /\ self.s > self.e -> Empty
      [] self.k \in {"Exclusive", "StartExclusive", "EndExclusive"}
           /\ self.s >= self.e -> Empty
      [] OTHER -> self

\* ------------------------------------------------------------------------
\* continuous.rs: compare and the operations built on it
\* ------------------------------------------------------------------------

\* A change to classify: the (Greater, _, Equal) combination is missing.
classify_no_finishes(cmp_end_start, cmp_start_end, cmp_start_start, cmp_end_end) ==
    IF cmp_start_start = "Less"
       /\ (cmp_end_start = "Greater" \/ cmp_end_start = "Equal")
       /\ cmp_end_end = "Less"
    THEN Some("Overlaps")
    ELSE IF cmp_start_start = "Greater"
       /\ (cmp_start_end = "Less" \/ cmp_start_end = "Equal")
       /\ cmp_end_end = "Greater"
    THEN Some("IsOverlapped")
    ELSE IF cmp_start_start = "Equal" /\ cmp_end_end = "Less"
    THEN Some("Starts")
    ELSE IF cmp_start_start = "Equal" /\ cmp_end_end = "Greater"
    THEN Some("IsStarted")
    ELSE IF cmp_start_start = "Less" /\ cmp_end_end = "Equal"
    THEN Some("IsFinished")
    ELSE IF cmp_start_start = "Less" /\ cmp_end_end = "Greater"
    THEN Some("StrictlyContains")
    ELSE IF cmp_start_start = "Greater" /\ cmp_end_end = "Less"
    THEN Some("IsStrictlyContained")
    ELSE IF cmp_start_start = "Equal" /\ cmp_end_end = "Equal"
    THEN Some("Equal")
    ELSE Panic

\* The nine combinations of compare once the four short-circuits have not
\* fired; the panic! at the end when none matches.
classify(cmp_end_start, cmp_start_end, cmp_start_start, cmp_end_end) ==
    IF cmp_start_start = "Less"
       /\ (cmp_end_start = "Greater" \/ cmp_end_start = "Equal")
       /\ cmp_end_end = "Less"
    THEN Some("Overlaps")
    ELSE IF cmp_start_start = "Greater"
       /\ (cmp_start_end = "Less" \/ cmp_start_end = "Equal")
       /\ cmp_end_end = "Greater"
    THEN Some("IsOverlapped")
    ELSE IF cmp_start_start = "Equal" /\ cmp_end_end = "Less"
    THEN Some("Starts")
    ELSE IF cmp_start_start = "Equal" /\ cmp_end_end = "Greater"
    THEN Some("IsStarted")
    ELSE IF cmp_start_start = "Greater" /\ cmp_end_end = "Equal"
    THEN Some("Finishes")
    ELSE IF cmp_start_start = "Less" /\ cmp_end_end = "Equal"
    THEN Some("IsFinished")
    ELSE IF cmp_start_start = "Less" /\ cmp_end_end = "Greater"
    THEN Some("StrictlyContains")
    ELSE IF cmp_start_start = "Greater" /\ cmp_end_end = "Less"
    THEN Some("IsStrictlyContained")
    ELSE IF cmp_start_start = "Equal" /\ cmp_end_end = "Equal"
    THEN Some("Equal")
    ELSE Panic

\* compare on two ranges that both have bounds.
compare_bounds(self_bounds, other_bounds) ==
    LET self_start == self_bounds[1]
        self_end == self_bounds[2]
        other_start == other_bounds[1]
        other_end == other_bounds[2]
        cmp_end_start == partial_cmp_bounds(self_end, "End", other_start, "Start")
        cmp_start_end == partial_cmp_bounds(self_start, "Start", other_end, "End")
        cmp_start_start ==
            partial_cmp_bounds(self_start, "Start", other_start, "Start")
        cmp_end_end == partial_cmp_bounds(self_end, "End", other_end, "End")
    IN IF ~is_some(cmp_end_start) THEN None
       ELSE IF cmp_end_start.val = "Less" THEN Some("StrictlyBefore")
       ELSE IF cmp_end_start.val = "Meets" THEN Some("Meets")
       ELSE IF ~is_some(cmp_start_end) THEN None
       ELSE IF cmp_start_end.val = "Greater" THEN Some("StrictlyAfter")
       ELSE IF cmp_start_end.val = "IsMet" THEN Some("IsMet")
       ELSE IF ~is_some(cmp_start_start) THEN None
       ELSE IF ~is_some(cmp_end_end) THEN None
       ELSE classify(cmp_end_start.val, cmp_start_end.val,
                     cmp_start_start.val, cmp_end_end.val)

\* A change to compare: an empty operand never compares, not even with
\* another empty one.
compare_empty_none(self, other) ==
    IF is_empty(self) \/ is_empty(other) THEN None
    ELSE IF ~is_some(range_bounds(self)) \/ ~is_some(range_bounds(other))
    THEN Panic
    ELSE compare_bounds(range_bounds(self).val, range_bounds(other).val)

\* Option<RangesRelation>, or Panic.
compare(self, other) ==
    IF is_empty(self)
    THEN (IF is_empty(other) THEN Some("Equal") ELSE None)
    ELSE IF is_empty(other) THEN None
    ELSE IF ~is_some(range_bounds(self)) \/ ~is_some(range_bounds(other))
    THEN Panic
    ELSE compare_bounds(range_bounds(self).val, range_bounds(other).val)

\* A change to contains_range: an absent relation counts as containment.
contains_range_none_true(self, other) ==
    LET c == compare(self, other)
    IN IF is_some(c) THEN relation_contains(c.val) ELSE TRUE

contains_range(self, other) ==
    LET c == compare(self, other)
    IN IF is_some(c) THEN relation_contains(c.val) ELSE FALSE

disjoint_from_range(self, other) ==
    LET c == compare(self, other)
    IN IF is_some(c) THEN relation_disjoint(c.val) ELSE TRUE

intersects(self, other) ==
    IF is_empty(self) /\ is_empty(other) THEN FALSE
    ELSE LET c == compare(self, other)
         IN IF is_some(c) THEN relation_intersects(c.val) ELSE FALSE

\* The tests' helper `meets` of simplify.rs: an included end at the value of
\* an excluded start, or the reverse, in either operand order.
meets(x, y) ==
    LET xb == range_bounds(x)
        yb == range_bounds(y)
        touch(end, start) ==
            /\ end.b # "Unbounded"
            /\ start.b # "Unbounded"
            /\ end.b # start.b
            /\ end.v = start.v
    IN /\ is_some(xb)
       /\ is_some(yb)
       /\ (touch(xb.val[2], yb.val[1]) \/ touch(xb.val[1], yb.val[2]))

\* from_bounds on two Option<Bound>, each unwrapped with expect.
from_expected_bounds(start, end) ==
    IF ~is_some(start) \/ ~is_some(end) THEN Panic
    ELSE Some(from_bounds(<<start.val, end.val>>))

\* A change to union_knowing_cmp: the containment arms return the operand
\* that is contained, not the one that contains.
union_knowing_cmp_smaller(self, other, cmp) ==
    CASE cmp \in {"StrictlyBefore", "StrictlyAfter"} -> None
      [] cmp \in {"Meets", "Overlaps"} ->
           from_expected_bounds(start_bound(self), end_bound(other))
      [] cmp \in {"IsMet", "IsOverlapped"} ->
           from_expected_bounds(start_bound(other), end_bound(self))
      [] cmp \in {"Starts", "IsStrictlyContained", "Finishes"} -> Some(self)
      [] cmp \in {"IsStarted", "StrictlyContains", "IsFinished", "Equal"} ->
           Some(other)

union_knowing_cmp(self, other, cmp) ==
    CASE cmp \in {"StrictlyBefore", "StrictlyAfter"} -> None
      [] cmp \in {"Meets", "Overlaps"} ->
           from_expected_bounds(start_bound(self), end_bound(other))
      [] cmp \in {"IsMet", "IsOverlapped"} ->
           from_expected_bounds(start_bound(other), end_bound(self))
      [] cmp \in {"Starts", "IsStrictlyContained", "Finishes"} -> Some(other)
      [] cmp \in {"IsStarted", "StrictlyContains", "IsFinished", "Equal"} ->
           Some(self)

\* A change to union: an empty operand is recognised by its variant only.
union_empty_variant(self, other) ==
    IF is_full(self) \/ is_full(other) THEN Some(Full)
    ELSE IF self.k = "Empty" THEN Some(other)
    ELSE IF other.k = "Empty" THEN Some(self)
    ELSE LET c == compare(self, other)
         IN IF is_some(c) THEN union_knowing_cmp(self, other, c.val) ELSE c

union(self, other) ==
    IF is_full(self) \/ is_full(other) THEN Some(Full)
    ELSE IF is_empty(self) THEN Some(other)
    ELSE IF is_empty(other) THEN Some(self)
    ELSE LET c == compare(self, other)
         IN IF is_some(c) THEN union_knowing_cmp(self, other, c.val) ELSE c

\* A change to intersection: the Meets arm takes the value of self's start
\* bound.
intersection_meets_start(self, other) ==
    IF is_empty(self) \/ is_empty(other) THEN Some(Empty)
    ELSE IF is_full(self) THEN Some(other)
    ELSE IF is_full(other) THEN Some(self)
    ELSE LET c == compare(self, other)
             cmp == c.val
         IN IF c = None THEN Some(Empty)
            ELSE IF c = Panic THEN Panic
            ELSE CASE cmp \in {"StrictlyBefore", "StrictlyAfter"} -> Some(Empty)
                   [] cmp = "Meets" ->
                        LET end == expect_bound(start_bound(self))
                        IN IF is_some(end) THEN Some(Single(end.val)) ELSE Panic
                   [] cmp = "IsMet" ->
                        LET start == expect_bound(start_bound(self))
                        IN IF is_some(start) THEN Some(Single(start.val)) ELSE Panic
                   [] cmp = "Overlaps" ->
                        from_expected_bounds(start_bound(other), end_bound(self))
                   [] cmp = "IsOverlapped" ->
                        from_expected_bounds(start_bound(self), end_bound(other))
                   [] cmp \in {"Starts", "IsStrictlyContained", "Finishes",
                               "Equal"} -> Some(self)
                   [] cmp \in {"IsStarted", "StrictlyContains", "IsFinished"} ->
                        Some(other)

\* intersection returns a range, not an Option: Some(range), or Panic.
intersection(self, other) ==
    IF is_empty(self) \/ is_empty(other) THEN Some(Empty)
    ELSE IF is_full(self) THEN Some(other)
    ELSE IF is_full(other) THEN Some(self)
    ELSE LET c == compare(self, other)
             cmp == c.val
         IN IF c = None THEN Some(Empty)
            ELSE IF c = Panic THEN Panic
            ELSE CASE cmp \in {"StrictlyBefore", "StrictlyAfter"} -> Some(Empty)
                   [] cmp = "Meets" ->
                        LET end == expect_bound(end_bound(self))
                        IN IF is_some(end) THEN Some(Single(end.val)) ELSE Panic
                   [] cmp = "IsMet" ->
                        LET start == expect_bound(start_bound(self))
                        IN IF is_some(start) THEN Some(Single(start.val)) ELSE Panic
                   [] cmp = "Overlaps" ->
                        from_expected_bounds(start_bound(other), end_bound(self))
                   [] cmp = "IsOverlapped" ->
                        from_expected_bounds(start_bound(self), end_bound(other))
                   [] cmp \in {"Starts", "IsStrictlyContained", "Finishes",
                               "Equal"} -> Some(self)
                   [] cmp \in {"IsStarted", "StrictlyContains", "IsFinished"} ->
                        Some(other)

\* reverse_bound on an Option<Bound> unwrapped with expect.
reverse_expected(bound) ==
    IF is_some(bound) THEN Some(reverse_bound(bound.val)) ELSE bound

\* The last arm of difference's match: `_ => match self.compare(other)`.
difference_by_cmp(self, other) ==
    LET c == compare(self, other)
        cmp == c.val
    IN IF ~is_some(c) THEN c
       ELSE CASE cmp \in {"StrictlyBefore", "StrictlyAfter"} -> Some(self)
              [] cmp \in {"Equal", "IsStrictlyContained", "Starts",
                          "Finishes"} -> Some(Empty)
              [] cmp = "StrictlyContains" -> None
              [] cmp = "Meets" ->
                   from_expected_bounds(start_bound(self),
                                        reverse_expected(end_bound(self)))
              [] cmp = "IsMet" ->
                   from_expected_bounds(reverse_expected(start_bound(self)),
                                        end_bound(self))
              [] cmp \in {"Overlaps", "IsFinished"} ->
                   from_expected_bounds(start_bound(self),
                                        reverse_expected(start_bound(other)))
              [] cmp \in {"IsOverlapped", "IsStarted"} ->
                   from_expected_bounds(reverse_expected(end_bound(other)),
                                        end_bound(self))

\* A change to difference: nothing is left of an empty self.
difference_empty_self(self, other) ==
    IF self.k = "Empty" THEN Some(Empty)
    ELSE IF other.k = "Empty" THEN Some(Empty)
    ELSE difference_by_cmp(self, other)

difference(self, other) ==
    IF self.k = "Empty" THEN Some(other)
    ELSE IF other.k = "Empty" THEN Some(Empty)
    ELSE difference_by_cmp(self, other)

\* ------------------------------------------------------------------------
\* State
\* ------------------------------------------------------------------------

VARIABLES
    a,                \* the self operand of a pairwise operation
    b,                \* the other operand
    op,               \* the operation that was called on (a, b), "none" before
    res,              \* what the operation returned
    input,            \* the vector handed to simplify_ranges, as the caller built it
    ranges,           \* the vector simplify_ranges mutates in place
    index_to_remove,  \* the indices recorded as empty (0-based, as in the code)
    write_index,      \* the merge pass's write head (0-based)
    read_index,       \* the merge pass's read head (0-based)
    pc                \* where simplify_ranges is

opVars == <<a, b, op, res>>

simplifyVars == <<input, ranges, index_to_remove, write_index, read_index, pc>>

vars == <<a, b, op, res, input, ranges, index_to_remove, write_index, read_index, pc>>

Vals == 0 .. MaxVal

\* ------------------------------------------------------------------------
\* The pairwise operations, each called once on a pair of ranges
\* ------------------------------------------------------------------------

OpsInit ==
    /\ a \in ContinuousRange(Vals)
    /\ b \in ContinuousRange(Vals)
    /\ op = "none"
    /\ res = None
    /\ input = <<>>
    /\ ranges = <<>>
    /\ index_to_remove = <<>>
    /\ write_index = 0
    /\ read_index = 0
    /\ pc = "idle"

Call(name, result) ==
    /\ op = "none"
    /\ op' = name
    /\ res' = result
    /\ UNCHANGED <<a, b>>
    /\ UNCHANGED simplifyVars

CallCompare == Call("compare", compare(a, b))

CallIntersects == Call("intersects", intersects(a, b))

CallContainsRange == Call("contains_range", contains_range(a, b))

CallUnion == Call("union", union(a, b))

CallIntersection == Call("intersection", intersection(a, b))

CallDifference == Call("difference", difference(a, b))

CallDisjointFromRange == Call("disjoint_from_range", disjoint_from_range(a, b))

\* contains takes a value, not a range: res holds the value with the answer.
CallContains ==
    \E value \in Vals :
        Call("contains", [value |-> value, found |-> contains(a, value)])

OpsNext ==
    \/ CallCompare
    \/ CallIntersects
    \/ CallContainsRange
    \/ CallUnion
    \/ CallIntersection
    \/ CallDifference
    \/ CallDisjointFromRange
    \/ CallContains

OpsSpec == OpsInit /\ [][OpsNext]_vars

\* ------------------------------------------------------------------------
\* The constructors, simplify and partial_cmp_bounds, each called once on
\* arguments of its own; res holds the arguments with the value returned.
\* ------------------------------------------------------------------------

\* Every value of std::ops::Bound<&Idx> with its value in vals.
Bound(vals) ==
    {Unbounded} \cup {Included(x) : x \in vals} \cup {Excluded(x) : x \in vals}

PureInit ==
    /\ a = Empty
    /\ b = Empty
    /\ op = "none"
    /\ res = None
    /\ input = <<>>
    /\ ranges = <<>>
    /\ index_to_remove = <<>>
    /\ write_index = 0
    /\ read_index = 0
    /\ pc = "idle"

CallInclusive ==
    \E start \in Vals, end \in Vals :
        Call("inclusive",
             [start |-> start, end |-> end, range |-> inclusive(start, end)])

CallExclusive ==
    \E start \in Vals, end \in Vals :
        Call("exclusive",
             [start |-> start, end |-> end, range |-> exclusive(start, end)])

CallStartExclusive ==
    \E start \in Vals, end \in Vals :
        Call("start_exclusive",
             [start |-> start, end |-> end,
              range |-> start_exclusive(start, end)])

CallEndExclusive ==
    \E start \in Vals, end \in Vals :
        Call("end_exclusive",
             [start |-> start, end |-> end, range |-> end_exclusive(start, end)])

CallSimplify ==
    \E self \in ContinuousRange(Vals) :
        Call("simplify", [self |-> self, range |-> simplify(self)])

CallPartialCmpBounds ==
    \E this \in Bound(Vals), this_side \in BoundSide,
       other \in Bound(Vals), other_side \in BoundSide :
        Call("partial_cmp_bounds",
             [this |-> this, this_side |-> this_side,
              other |-> other, other_side |-> other_side,
              ordering |-> partial_cmp_bounds(this, this_side, other, other_side)])

PureNext ==
    \/ CallInclusive
    \/ CallExclusive
    \/ CallStartExclusive
    \/ CallEndExclusive
    \/ CallSimplify
    \/ CallPartialCmpBounds

PureSpec == PureInit /\ [][PureNext]_vars

\* ------------------------------------------------------------------------
\* simplify.rs: the four passes of simplify_ranges
\*
\* Vec indices are 0-based as in the code; the element at Vec index i is
\* rs[i + 1].
\* ------------------------------------------------------------------------

\* A change to return_full: the truncate(1) is missing.
return_full_no_truncate(rs) == [rs EXCEPT ![1] = Full]

\* The Full arm of pass 1: `ranges[0] = Full; ranges.truncate(1); return;`
return_full(rs) == SubSeq([rs EXCEPT ![1] = Full], 1, 1)

\* Pass 1, the loop `for i in 0..ranges.len()` from Vec index i on: each
\* element is taken (the default, Empty, is left in its place), simplified,
\* and put back unless it is Empty (its index is recorded) or Full (the
\* vector becomes [Full] and the function returns).
RECURSIVE simplify_each(_, _, _)
simplify_each(rs, i, removed) ==
    IF i >= Len(rs)
    THEN [ranges |-> rs, index_to_remove |-> removed, returned |-> FALSE]
    ELSE LET range == simplify(rs[i + 1])
         IN CASE range.k = "Empty" ->
                   simplify_each([rs EXCEPT ![i + 1] = Empty], i + 1,
                                 Append(removed, i))
              [] range.k = "Full" ->
                   [ranges |-> return_full(rs),
                    index_to_remove |-> removed, returned |-> TRUE]
              [] OTHER ->
                   simplify_each([rs EXCEPT ![i + 1] = range], i + 1, removed)

\* A change to swap_remove: the last element is dropped, whatever the index.
swap_remove_pop(rs, index) ==
    IF index >= Len(rs) THEN Panic
    ELSE Some(SubSeq(rs, 1, Len(rs) - 1))

\* Vec::swap_remove: the last element takes the place of the removed one;
\* panics when index is out of bounds.
swap_remove(rs, index) ==
    IF index >= Len(rs) THEN Panic
    ELSE Some(SubSeq([rs EXCEPT ![index + 1] = rs[Len(rs)]], 1, Len(rs) - 1))

\* A change to remove_empty: the loop runs over index_to_remove.iter(), the
\* first recorded index is removed first.
RECURSIVE remove_empty_ascending(_, _)
remove_empty_ascending(rs, indices) ==
    IF indices = <<>> THEN Some(rs)
    ELSE LET removed == swap_remove(rs, indices[1])
         IN IF ~is_some(removed) THEN Panic
            ELSE remove_empty_ascending(removed.val,
                                        SubSeq(indices, 2, Len(indices)))

\* Pass 2, the loop `for index in index_to_remove.iter().rev()`: the last
\* recorded index is removed first.
RECURSIVE remove_empty(_, _)
remove_empty(rs, indices) ==
    IF indices = <<>> THEN Some(rs)
    ELSE LET removed == swap_remove(rs, indices[Len(indices)])
         IN IF ~is_some(removed) THEN Panic
            ELSE remove_empty(removed.val, SubSeq(indices, 1, Len(indices) - 1))

\* A change to sort_closure: the operands of compare change places.
sort_closure_reversed(x, y) ==
    LET c == compare(y, x)
    IN IF is_some(c) THEN Some(start_ordering(c.val)) ELSE Panic

\* The closure handed to sort_by: a.compare(b).expect(..).start_ordering().
sort_closure(x, y) ==
    LET c == compare(x, y)
    IN IF is_some(c) THEN Some(start_ordering(c.val)) ELSE Panic

\* The insertion step of the stable sort: x moves left past every element it
\* is Less than. sorted is Some(sequence) or Panic.
RECURSIVE insert_tail(_, _)
insert_tail(sorted, x) ==
    IF sorted = <<>> THEN Some(<<x>>)
    ELSE LET last == sorted[Len(sorted)]
             ord == sort_closure(x, last)
             rest == insert_tail(SubSeq(sorted, 1, Len(sorted) - 1), x)
         IN IF ~is_some(ord) THEN Panic
            ELSE IF ord.val = "Less"
            THEN (IF is_some(rest) THEN Some(Append(rest.val, last)) ELSE Panic)
            ELSE Some(Append(sorted, x))

\* A change to sort_by: the vector is left in the order it has.
sort_by_unsorted(rs, n) == Some(SubSeq(rs, 1, n))

\* Pass 3, ranges.sort_by(..): a stable sort, an insertion sort for a vector
\* of at most 20 elements. The first n elements of rs, sorted.
RECURSIVE sort_by(_, _)
sort_by(rs, n) ==
    IF n = 0 THEN Some(<<>>)
    ELSE LET before == sort_by(rs, n - 1)
         IN IF is_some(before) THEN insert_tail(before.val, rs[n]) ELSE Panic

\* Vec::swap on Vec indices i and j.
swap(rs, i, j) == [rs EXCEPT ![i + 1] = rs[j + 1], ![j + 1] = rs[i + 1]]

\* A change to truncate: the vector keeps its length.
truncate_kept(rs, len) == rs

\* Vec::truncate
truncate(rs, len) == IF len >= Len(rs) THEN rs ELSE SubSeq(rs, 1, len)

\* A change to merge_step: the Starts / IsStrictlyContained / Finishes arm
\* does not swap the read element into the write position.
merge_step_no_swap(rs, w, r) ==
    LET write == rs[w + 1]
        read == rs[r + 1]
        c == compare(write, read)
        cmp == c.val
        merged == union_knowing_cmp(write, read, cmp)
    IN IF ~is_some(c) THEN Panic
       ELSE CASE cmp = "StrictlyBefore" ->
                   Some([ranges |-> swap(rs, w + 1, r), write_index |-> w + 1,
                         read_index |-> r + 1])
              [] cmp = "StrictlyAfter" -> Panic
              [] cmp \in {"Meets", "IsMet", "Overlaps", "IsOverlapped"} ->
                   IF is_some(merged)
                   THEN Some([ranges |-> [rs EXCEPT ![w + 1] = merged.val],
                              write_index |-> w, read_index |-> r + 1])
                   ELSE Panic
              [] cmp \in {"Starts", "IsStrictlyContained", "Finishes"} ->
                   Some([ranges |-> rs, write_index |-> w,
                         read_index |-> r + 1])
              [] cmp \in {"IsStarted", "StrictlyContains", "IsFinished",
                          "Equal"} ->
                   Some([ranges |-> rs, write_index |-> w, read_index |-> r + 1])

\* A change to merge_step: the StrictlyBefore arm does not advance the read
\* head.
merge_step_read_kept(rs, w, r) ==
    LET write == rs[w + 1]
        read == rs[r + 1]
        c == compare(write, read)
        cmp == c.val
        merged == union_knowing_cmp(write, read, cmp)
    IN IF ~is_some(c) THEN Panic
       ELSE CASE cmp = "StrictlyBefore" ->
                   Some([ranges |-> swap(rs, w + 1, r), write_index |-> w + 1,
                         read_index |-> r])
              [] cmp = "StrictlyAfter" -> Panic
              [] cmp \in {"Meets", "IsMet", "Overlaps", "IsOverlapped"} ->
                   IF is_some(merged)
                   THEN Some([ranges |-> [rs EXCEPT ![w + 1] = merged.val],
                              write_index |-> w, read_index |-> r + 1])
                   ELSE Panic
              [] cmp \in {"Starts", "IsStrictlyContained", "Finishes"} ->
                   Some([ranges |-> swap(rs, w, r), write_index |-> w,
                         read_index |-> r + 1])
              [] cmp \in {"IsStarted", "StrictlyContains", "IsFinished",
                          "Equal"} ->
                   Some([ranges |-> rs, write_index |-> w, read_index |-> r + 1])

\* Pass 4, one iteration of `while read_index < len`.
merge_step(rs, w, r) ==
    LET write == rs[w + 1]
        read == rs[r + 1]
        c == compare(write, read)
        cmp == c.val
        merged == union_knowing_cmp(write, read, cmp)
    IN IF ~is_some(c) THEN Panic
       ELSE CASE cmp = "StrictlyBefore" ->
                   Some([ranges |-> swap(rs, w + 1, r), write_index |-> w + 1,
                         read_index |-> r + 1])
              [] cmp = "StrictlyAfter" -> Panic
              [] cmp \in {"Meets", "IsMet", "Overlaps", "IsOverlapped"} ->
                   IF is_some(merged)
                   THEN Some([ranges |-> [rs EXCEPT ![w + 1] = merged.val],
                              write_index |-> w, read_index |-> r + 1])
                   ELSE Panic
              [] cmp \in {"Starts", "IsStrictlyContained", "Finishes"} ->
                   Some([ranges |-> swap(rs, w, r), write_index |-> w,
                         read_index |-> r + 1])
              [] cmp \in {"IsStarted", "StrictlyContains", "IsFinished",
                          "Equal"} ->
                   Some([ranges |-> rs, write_index |-> w, read_index |-> r + 1])

\* Pass 4 from (write_index, read_index) = (w, r) to the final truncate.
RECURSIVE merge_from(_, _, _)
merge_from(rs, w, r) ==
    IF r < Len(rs)
    THEN LET step == merge_step(rs, w, r)
         IN IF is_some(step)
            THEN merge_from(step.val.ranges, step.val.write_index,
                            step.val.read_index)
            ELSE Panic
    ELSE Some(truncate(rs, w + 1))

\* simplify_ranges as a function of its argument: Some(the vector as the call
\* leaves it), or Panic.
simplify_ranges(rs) ==
    IF rs = <<>> THEN Some(rs)
    ELSE LET first == simplify_each(rs, 0, <<>>)
             kept == remove_empty(first.ranges, first.index_to_remove)
             sorted == sort_by(kept.val, Len(kept.val))
         IN IF first.returned THEN Some(first.ranges)
            ELSE IF ~is_some(kept) THEN Panic
            ELSE IF ~is_some(sorted) THEN Panic
            ELSE merge_from(sorted.val, 0, 1)

\* ------------------------------------------------------------------------
\* simplify_ranges, pass by pass, on a vector the caller built
\* ------------------------------------------------------------------------

Idx == 0 .. MaxIdx

Init ==
    /\ input \in UNION {[1 .. n -> ContinuousRange(Idx)] : n \in 0 .. MaxLen}
    /\ ranges = input
    /\ index_to_remove = <<>>
    /\ write_index = 0
    /\ read_index = 0
    /\ pc = "start"
    /\ a = Empty
    /\ b = Empty
    /\ op = "none"
    /\ res = None

\* `if ranges.is_empty() { return; }`
ReturnEmpty ==
    /\ pc = "start"
    /\ ranges = <<>>
    /\ pc' = "done"
    /\ UNCHANGED <<input, ranges, index_to_remove, write_index, read_index>>
    /\ UNCHANGED opVars

\* Pass 1.
SimplifyEach ==
    /\ pc = "start"
    /\ ranges # <<>>
    /\ LET first == simplify_each(ranges, 0, <<>>)
       IN /\ ranges' = first.ranges
          /\ index_to_remove' = first.index_to_remove
          /\ pc' = IF first.returned THEN "done" ELSE "remove"
    /\ UNCHANGED <<input, write_index, read_index>>
    /\ UNCHANGED opVars

\* Pass 2.
RemoveEmpty ==
    /\ pc = "remove"
    /\ LET kept == remove_empty(ranges, index_to_remove)
       IN IF is_some(kept)
          THEN ranges' = kept.val /\ pc' = "sort"
          ELSE ranges' = ranges /\ pc' = "panic"
    /\ UNCHANGED <<input, index_to_remove, write_index, read_index>>
    /\ UNCHANGED opVars

\* Pass 3, and the initialisation of the merge pass.
Sort ==
    /\ pc = "sort"
    /\ LET sorted == sort_by(ranges, Len(ranges))
       IN IF is_some(sorted)
          THEN ranges' = sorted.val /\ pc' = "merge"
          ELSE ranges' = ranges /\ pc' = "panic"
    /\ write_index' = 0
    /\ read_index' = 1
    /\ UNCHANGED <<input, index_to_remove>>
    /\ UNCHANGED opVars

\* Pass 4, one iteration.
Merge ==
    /\ pc = "merge"
    /\ read_index < Len(ranges)
    /\ LET step == merge_step(ranges, write_index, read_index)
       IN IF is_some(step)
          THEN /\ ranges' = step.val.ranges
               /\ write_index' = step.val.write_index
               /\ read_index' = step.val.read_index
               /\ pc' = "merge"
          ELSE /\ pc' = "panic"
               /\ UNCHANGED <<ranges, write_index, read_index>>
    /\ UNCHANGED <<input, index_to_remove>>
    /\ UNCHANGED opVars

\* The end of the loop: `ranges.truncate(write_index + 1)`.
Truncate ==
    /\ pc = "merge"
    /\ read_index >= Len(ranges)
    /\ ranges' = truncate(ranges, write_index + 1)
    /\ pc' = "done"
    /\ UNCHANGED <<input, index_to_remove, write_index, read_index>>
    /\ UNCHANGED opVars

Next ==
    \/ ReturnEmpty
    \/ SimplifyEach
    \/ RemoveEmpty
    \/ Sort
    \/ Merge
    \/ Truncate

Spec == Init /\ [][Next]_vars

\* ------------------------------------------------------------------------
\* Properties of simplify_ranges (of Spec)
\* ------------------------------------------------------------------------

Positions(rs) == 1 .. Len(rs)

\* C1: once simplify_ranges has returned, every two output positions i < j
\* compare as StrictlyBefore (and as StrictlyAfter in the other order): no
\* two output elements intersect, none meet, and the output is strictly
\* ascending.
C1_StrictlyAscending ==
    pc = "done" =>
        \A i \in Positions(ranges), j \in Positions(ranges) :
            i < j =>
                /\ compare(ranges[i], ranges[j]) = Some("StrictlyBefore")
                /\ compare(ranges[j], ranges[i]) = Some("StrictlyAfter")
                /\ ~intersects(ranges[i], ranges[j])
                /\ ~intersects(ranges[j], ranges[i])
                /\ ~meets(ranges[i], ranges[j])
                /\ ~meets(ranges[j], ranges[i])

\* The call returned two elements for a vector given in descending order.
C1_Witness ==
    /\ pc = "done"
    /\ Len(input) = 2
    /\ Len(ranges) = 2
    /\ compare(input[1], input[2]) = Some("StrictlyAfter")

\* A range in normal form: not Empty, no Inclusive(s, e) with s >= e and no
\* exclusive two-value variant with s >= e.
NormalForm(r) ==
    /\ r.k # "Empty"
    /\ r.k = "Inclusive" => r.s < r.e
    /\ r.k \in {"Exclusive", "StartExclusive", "EndExclusive"} => r.s < r.e

\* C2: once simplify_ranges has returned, no output element is empty and
\* every output element is in normal form: simplify() returns it unchanged.
C2_NormalNonEmpty ==
    pc = "done" =>
        \A i \in Positions(ranges) :
            /\ ~is_empty(ranges[i])
            /\ simplify(ranges[i]) = ranges[i]
            /\ NormalForm(ranges[i])

\* The call returned for a vector holding an Inclusive(s, s) and an inverted
\* Exclusive.
C2_Witness ==
    /\ pc = "done"
    /\ input = <<Inclusive(1, 1), Exclusive(1, 0)>>
    /\ ranges = <<Single(1)>>

\* C3: simplify_ranges is idempotent: called on its own output, it leaves
\* that output as it is.
C3_Idempotent == pc = "done" => simplify_ranges(ranges) = Some(ranges)

\* The call changed its argument and returned two elements.
C3_Witness ==
    /\ pc = "done"
    /\ ranges # input
    /\ Len(ranges) = 2

\* C4: when any element of the argument is Full, at any position and
\* whatever the other elements are, simplify_ranges leaves exactly [Full].
C4_FullAbsorbs ==
    pc = "done" /\ (\E i \in Positions(input) : input[i] = Full) =>
        ranges = <<Full>>

\* The call returned for a vector with Full in second place, after an empty
\* element that is not in normal form.
C4_Witness ==
    /\ pc = "done"
    /\ input = <<StartExclusive(1, 0), Full>>
    /\ ranges = <<Full>>

\* How many positions of rs hold r.
Count(rs, r) == Cardinality({i \in Positions(rs) : rs[i] = r})

\* The argument of simplify_ranges with every element simplified.
SimplifiedInput == [i \in Positions(input) |-> simplify(input[i])]

\* The elements of rs, as a set.
Elements(rs) == {rs[i] : i \in Positions(rs)}

\* C18: the empty-removal step deletes exactly the elements recorded as
\* empty: no swap_remove is out of bounds, and after the loop every range
\* other than Empty is in the vector as many times as among the simplified
\* elements of the argument, and Empty is not in it.
C18_RemovesExactlyEmpties ==
    /\ pc = "remove" => is_some(remove_empty(ranges, index_to_remove))
    /\ pc = "sort" =>
          /\ Empty \notin Elements(ranges)
          /\ Len(ranges) = Len(input) - Len(index_to_remove)
          /\ \A r \in (Elements(ranges) \cup Elements(SimplifiedInput)) \ {Empty} :
                Count(ranges, r) = Count(SimplifiedInput, r)

\* The step removed an empty first element: the last element took its place.
C18_Witness ==
    /\ pc = "sort"
    /\ input = <<Inclusive(1, 0), Single(0)>>
    /\ index_to_remove = <<0>>
    /\ ranges = <<Single(0)>>

\* The step removed two consecutive empty elements at the end of the vector.
C18_WitnessTrailing ==
    /\ pc = "sort"
    /\ input = <<Exclusive(0, 0), Empty>>
    /\ index_to_remove = <<0, 1>>
    /\ ranges = <<>>

\* C19: simplify_ranges never reaches a fatal path: every compare the sort
\* can make returns Some; in the merge pass compare of the write element
\* and the read element returns Some and never StrictlyAfter, and
\* union_knowing_cmp returns Some in the Meets/IsMet/Overlaps/IsOverlapped
\* branch.
C19_NoFatalPath ==
    /\ pc # "panic"
    /\ pc = "sort" =>
          \A i \in Positions(ranges), j \in Positions(ranges) :
              is_some(compare(ranges[i], ranges[j]))
    /\ (pc = "merge" /\ read_index < Len(ranges)) =>
          LET write == ranges[write_index + 1]
              read == ranges[read_index + 1]
              c == compare(write, read)
          IN /\ is_some(c)
             /\ c.val # "StrictlyAfter"
             /\ c.val \in {"Meets", "IsMet", "Overlaps", "IsOverlapped"} =>
                   is_some(union_knowing_cmp(write, read, c.val))

\* The call sorted two elements given in descending order, found that they
\* meet and returned their union.
C19_Witness ==
    /\ pc = "done"
    /\ input = <<Single(1), EndExclusive(0, 1)>>
    /\ ranges = <<Inclusive(0, 1)>>

\* The values membership is probed with: those the elements are built
\* from, and one below and one above them.
ProbeIdx == -1 .. MaxIdx + 1

\* Some element of rs contains value.
Covers(rs, value) == \E i \in Positions(rs) : contains(rs[i], value)

\* C21: simplify_ranges preserves the set of covered values: once it has
\* returned, some element of the output contains v if and only if some
\* element of the argument contains v.
C21_CoveragePreserved ==
    pc = "done" =>
        \A v \in ProbeIdx : Covers(ranges, v) <=> Covers(input, v)

\* The call merged two ranges that meet and dropped an inverted one: the
\* output covers what the argument covers.
C21_Witness ==
    /\ pc = "done"
    /\ input = <<Single(1), EndExclusive(0, 1)>>
    /\ ranges = <<Inclusive(0, 1)>>
    /\ Covers(ranges, 0)
    /\ Covers(ranges, 1)
    /\ ~Covers(ranges, 2)

\* Every ordering of the elements of rs.
Orderings(rs) ==
    {[i \in Positions(rs) |-> rs[f[i]]] : f \in Permutations(Positions(rs))}

\* C25: the result of simplify_ranges does not depend on the order of its
\* argument: called on any permutation of the argument it leaves the same
\* sequence, the same elements in the same order.
C25_OrderIndependent ==
    pc = "done" =>
        \A p \in Orderings(input) : simplify_ranges(p) = Some(ranges)

\* The call returned two elements for an argument that it had to reorder;
\* the argument reversed gives the same output.
C25_Witness ==
    /\ pc = "done"
    /\ input = <<From(1), To(0)>>
    /\ ranges = <<To(0), From(1)>>
    /\ simplify_ranges(<<To(0), From(1)>>) = Some(ranges)

\* How many elements of rs are not empty.
NonEmptyCount(rs) == Cardinality({i \in Positions(rs) : ~is_empty(rs[i])})

\* One iteration of the merge loop: read_index grows by exactly one and the
\* vector keeps its length.
IterationAdvancesRead ==
    (pc = "merge" /\ pc' = "merge") =>
        /\ read_index' = read_index + 1
        /\ Len(ranges') = Len(ranges)

\* C26 as stated: the merge pass keeps 0 <= write_index < read_index <= len
\* at the head of every iteration, every iteration increases read_index by
\* exactly one, the loop is left after len - 1 iterations, and the final
\* truncate leaves write_index + 1 elements, at least 1 and at most the
\* number of non-empty elements of the argument.
C26_MergeLoop ==
    /\ [](pc = "merge" =>
            /\ 0 <= write_index
            /\ write_index < read_index
            /\ read_index <= Len(ranges))
    /\ [][IterationAdvancesRead]_vars
    /\ [][(pc = "merge" /\ pc' = "done") =>
            /\ read_index = Len(ranges)
            /\ Len(ranges') = write_index + 1
            /\ Len(ranges') >= 1
            /\ Len(ranges') <= NonEmptyCount(input)]_vars

\* C26 amended: the merge pass keeps 0 <= write_index < read_index at the
\* head of every iteration, and read_index <= len unless the vector is
\* empty (then write_index = 0 and read_index = 1); every iteration
\* increases read_index by exactly one and the loop is left after len - 1
\* iterations, after none for an empty vector; the final truncate leaves
\* write_index + 1 elements, at least 1 and at most the number of non-empty
\* elements of the argument, unless the vector is empty, which stays empty.
C26_MergeLoopUnlessEmpty ==
    /\ [](pc = "merge" =>
            /\ 0 <= write_index
            /\ write_index < read_index
            /\ ranges # <<>> => read_index <= Len(ranges)
            /\ ranges = <<>> => write_index = 0 /\ read_index = 1)
    /\ [][IterationAdvancesRead]_vars
    /\ [][(pc = "merge" /\ pc' = "done") =>
            /\ ranges # <<>> =>
                  /\ read_index = Len(ranges)
                  /\ Len(ranges') = write_index + 1
                  /\ Len(ranges') >= 1
            /\ ranges = <<>> => ranges' = <<>>
            /\ Len(ranges') <= NonEmptyCount(input)]_vars

\* The loop ran its one iteration on two elements, moved the write head and
\* the truncate kept both.
C26_Witness ==
    /\ pc = "done"
    /\ input = <<Single(1), Single(0)>>
    /\ write_index = 1
    /\ read_index = 2
    /\ Len(ranges) = 2

\* ------------------------------------------------------------------------
\* Properties of the pairwise operations (of OpsSpec)
\* ------------------------------------------------------------------------

\* The inverse of a relation: the relation of the operands swapped.
Inverse(r) ==
    CASE r = "StrictlyBefore" -> "StrictlyAfter"
      [] r = "StrictlyAfter" -> "StrictlyBefore"
      [] r = "Meets" -> "IsMet"
      [] r = "IsMet" -> "Meets"
      [] r = "Overlaps" -> "IsOverlapped"
      [] r = "IsOverlapped" -> "Overlaps"
      [] r = "Starts" -> "IsStarted"
      [] r = "IsStarted" -> "Starts"
      [] r = "Finishes" -> "IsFinished"
      [] r = "IsFinished" -> "Finishes"
      [] r = "StrictlyContains" -> "IsStrictlyContained"
      [] r = "IsStrictlyContained" -> "StrictlyContains"
      [] r = "Equal" -> "Equal"

\* C5: compare(b, a) is None exactly when compare(a, b) is None, and is the
\* inverse relation otherwise; intersects(a, b) = intersects(b, a).
C5_CompareInverse ==
    /\ op = "compare" =>
          /\ (res = None) <=> (compare(b, a) = None)
          /\ res # None =>
                /\ is_some(res)
                /\ is_some(compare(b, a))
                /\ compare(b, a).val = Inverse(res.val)
    /\ op = "intersects" => res = intersects(b, a)

\* compare returned Overlaps, and IsOverlapped for the operands swapped.
C5_Witness ==
    /\ op = "compare"
    /\ res = Some("Overlaps")
    /\ compare(b, a) = Some("IsOverlapped")

\* C6: compare(a, a) is Equal for a non-empty a, compare of two empty ranges
\* is Equal, and compare of an empty range with a non-empty one is None in
\* either operand order.
C6_CompareReflexive ==
    op = "compare" =>
        /\ (a = b /\ ~is_empty(a)) => res = Some("Equal")
        /\ (is_empty(a) /\ is_empty(b)) => res = Some("Equal")
        /\ (is_empty(a) /\ ~is_empty(b)) => res = None
        /\ (~is_empty(a) /\ is_empty(b)) => res = None

\* compare returned Equal for two empty ranges, one of them not Empty itself.
C6_Witness ==
    /\ op = "compare"
    /\ a = Empty
    /\ b = EndExclusive(2, 1)
    /\ res = Some("Equal")

\* C7 as stated: whenever union(a, b) is Some(u), u contains a and u
\* contains b.
C7_UnionContainsBoth ==
    op = "union" /\ is_some(res) =>
        /\ contains_range(res.val, a)
        /\ contains_range(res.val, b)

\* C7 amended: for a and b both non-empty or both empty, whenever
\* union(a, b) is Some(u), u contains a and u contains b.
C7_UnionContainsBothSameEmptiness ==
    op = "union" /\ is_some(res) /\ (is_empty(a) <=> is_empty(b)) =>
        /\ contains_range(res.val, a)
        /\ contains_range(res.val, b)

\* union joined two ranges that meet into a range that is neither of them.
C7_Witness ==
    /\ op = "union"
    /\ compare(a, b) = Some("Meets")
    /\ is_some(res)
    /\ res.val \notin {a, b}
    /\ contains_range(res.val, a)
    /\ contains_range(res.val, b)

\* C8: difference(a, b) is None exactly when compare(a, b) is
\* StrictlyContains, and Some range in every other case.
C8_DifferenceNoneIffStrictlyContains ==
    op = "difference" =>
        /\ (res = None) <=> (compare(a, b) = Some("StrictlyContains"))
        /\ res # None => is_some(res)

\* C9: difference(a, Empty) is Some(a) for every range a.
C9_DifferenceEmptyOther ==
    op = "difference" /\ b = Empty => res = Some(a)

\* C10: difference(Empty, b) is Some(b) for every range b, Full and Empty
\* included.
C10_DifferenceEmptySelf ==
    op = "difference" /\ a = Empty => res = Some(b)

\* difference returned Full for Empty minus Full.
C10_Witness ==
    /\ op = "difference"
    /\ a = Empty
    /\ b = Full
    /\ res = Some(Full)

\* C11: union(a, b) is None exactly when both operands are non-empty, neither
\* is Full, and compare(a, b) is StrictlyBefore or StrictlyAfter; when either
\* operand is Full the result is Some(Full); when self is empty the result is
\* Some(other), and when only other is empty the result is Some(self).
C11_UnionNoneIffDisjoint ==
    op = "union" =>
        /\ (res = None) <=>
              /\ ~is_empty(a)
              /\ ~is_empty(b)
              /\ ~is_full(a)
              /\ ~is_full(b)
              /\ compare(a, b) \in {Some("StrictlyBefore"), Some("StrictlyAfter")}
        /\ (is_full(a) \/ is_full(b)) => res = Some(Full)
        /\ is_empty(a) => res = Some(b)
        /\ (is_empty(b) /\ ~is_empty(a)) => res = Some(a)

\* union returned the non-empty operand for an empty self that is not the
\* Empty variant.
C11_Witness ==
    /\ op = "union"
    /\ a = Exclusive(1, 1)
    /\ b = Single(0)
    /\ res = Some(Single(0))

\* The value of a finite bound held in an Option<Bound>.
BoundValue(bound) == bound.val.v

\* An Option<Bound> that is present and finite.
IsFinite(bound) == is_some(bound) /\ bound.val.b # "Unbounded"

\* C12: intersection always returns a range; for non-empty, non-Full a and
\* b it returns Single(the value of a's end bound) when compare(a, b) is
\* Meets, Single(the value of a's start bound) when it is IsMet, and Empty
\* when it is StrictlyBefore or StrictlyAfter.
C12_IntersectionTotal ==
    op = "intersection" =>
        /\ is_some(res)
        /\ (~is_empty(a) /\ ~is_empty(b) /\ ~is_full(a) /\ ~is_full(b)) =>
              /\ compare(a, b) = Some("Meets") =>
                    /\ IsFinite(end_bound(a))
                    /\ res = Some(Single(BoundValue(end_bound(a))))
              /\ compare(a, b) = Some("IsMet") =>
                    /\ IsFinite(start_bound(a))
                    /\ res = Some(Single(BoundValue(start_bound(a))))
              /\ compare(a, b) \in {Some("StrictlyBefore"), Some("StrictlyAfter")} =>
                    res = Some(Empty)

\* intersection returned the touching point of a range that meets a ray.
C12_Witness ==
    /\ op = "intersection"
    /\ a = EndExclusive(0, 1)
    /\ b = From(1)
    /\ compare(a, b) = Some("Meets")
    /\ res = Some(Single(1))

\* a's end bound and b's start bound are finite and carry the same value.
SameValueAtTouch(x, y) ==
    /\ IsFinite(end_bound(x))
    /\ IsFinite(start_bound(y))
    /\ BoundValue(end_bound(x)) = BoundValue(start_bound(y))

C15_OrderingsFollowBounds ==
    op = "compare" /\ ~is_empty(a) /\ ~is_empty(b) /\ is_some(res) =>
        /\ Some(start_ordering(res.val)) =
              partial_cmp_bounds(start_bound(a).val, "Start",
                                 start_bound(b).val, "Start")
        /\ Some(end_ordering(res.val)) =
              partial_cmp_bounds(end_bound(a).val, "End",
                                 end_bound(b).val, "End")

\* compare returned IsFinished: the starts are Less, the ends Equal.
C15_Witness ==
    /\ op = "compare"
    /\ a = Inclusive(0, 2)
    /\ b = StartExclusive(0, 2)
    /\ res = Some("IsFinished")
    /\ start_ordering(res.val) = "Less"
    /\ end_ordering(res.val) = "Equal"

\* C16: when exactly one of a and b is empty, compare returns None, and
\* intersects and contains_range return false, in both operand orders.
C16_OneEmptyNoRelation ==
    (is_empty(a) # is_empty(b)) =>
        /\ op = "compare" => res = None /\ compare(b, a) = None
        /\ op = "intersects" => res = FALSE /\ ~intersects(b, a)
        /\ op = "contains_range" => res = FALSE /\ ~contains_range(b, a)

\* contains_range returned false for Full against an empty range.
C16_Witness ==
    /\ op = "contains_range"
    /\ a = Full
    /\ b = StartExclusive(2, 2)
    /\ res = FALSE

\* C20: compare, union, intersection and difference never fail fatally on
\* any pair of ranges, Empty, Full and un-normalized variants included: the
\* nine combinations of compare are exhaustive, and every expect and
\* expect_bound is applied to a bound that is present, and finite where a
\* value is taken from it.
C20_NoPanic ==
    /\ op \in {"compare", "union", "intersection", "difference"} => res # Panic
    /\ op = "compare" => res \in {None} \cup {Some(r) : r \in RangesRelation}
    /\ (op = "intersection" /\ compare(a, b) = Some("Meets")) =>
          IsFinite(end_bound(a))
    /\ (op = "intersection" /\ compare(a, b) = Some("IsMet")) =>
          IsFinite(start_bound(a))

\* compare went through the nine combinations for an un-normalized
\* Inclusive(2, 2) against a range it finishes.
C20_Witness ==
    /\ op = "compare"
    /\ a = Inclusive(2, 2)
    /\ b = StartExclusive(0, 2)
    /\ res = Some("Finishes")

\* The values membership is probed with, for the pairwise operations.
ProbeVals == -1 .. MaxVal + 1

\* C22: intersection agrees with point membership: intersection(a, b)
\* contains v if and only if a contains v and b contains v.
C22_IntersectionMembership ==
    op = "intersection" =>
        /\ is_some(res)
        /\ \A v \in ProbeVals :
              contains(res.val, v) <=> (contains(a, v) /\ contains(b, v))

\* C23: difference agrees with point membership on non-empty operands:
\* when difference(a, b) is Some(d), d contains v if and only if a contains v
\* and b does not; in particular d covers exactly the values of a when a
\* and b only meet or are strictly disjoint.
C23_DifferenceMembership ==
    (op = "difference" /\ ~is_empty(a) /\ ~is_empty(b) /\ is_some(res)) =>
        /\ \A v \in ProbeVals :
              contains(res.val, v) <=> (contains(a, v) /\ ~contains(b, v))
        /\ compare(a, b) \in {Some("Meets"), Some("IsMet"),
                              Some("StrictlyBefore"), Some("StrictlyAfter")} =>
              \A v \in ProbeVals : contains(res.val, v) <=> contains(a, v)

\* C24: union agrees with point membership: when union(a, b) is Some(u), u
\* contains v if and only if a contains v or b contains v.
C24_UnionMembership ==
    (op = "union" /\ is_some(res)) =>
        \A v \in ProbeVals :
            contains(res.val, v) <=> (contains(a, v) \/ contains(b, v))

\* union joined a range with the point that closes it: the result contains
\* that point and nothing beyond it.
C24_Witness ==
    /\ op = "union"
    /\ a = EndExclusive(0, 1)
    /\ b = Single(1)
    /\ res = Some(Inclusive(0, 1))
    /\ contains(res.val, 1)
    /\ ~contains(res.val, 2)

\* C27: disjoint_from_range is the exact negation of intersects, also when
\* one or both operands are empty: disjoint_from_range(a, b) = ~intersects(a, b).
C27_DisjointIsNotIntersects ==
    /\ op = "disjoint_from_range" => res = ~intersects(a, b)
    /\ op = "intersects" => res = ~disjoint_from_range(a, b)

\* C28: range containment and point membership agree:
\* a.contains_range(Single(v)) = a.contains(v), and a.contains_range(b)
\* implies that every value b contains is contained in a.
C28_ContainsRangeMembership ==
    /\ op = "contains" => res.found = contains_range(a, Single(res.value))
    /\ (op = "contains_range" /\ b.k = "Single") => res = contains(a, b.v)
    /\ (op = "contains_range" /\ res = TRUE) =>
          \A v \in ProbeVals : contains(b, v) => contains(a, v)

\* contains_range returned true for a ray against a range that starts with
\* it, and every value of that range is in the ray.
C28_Witness ==
    /\ op = "contains_range"
    /\ a = From(1)
    /\ b = Inclusive(1, 2)
    /\ res = TRUE
    /\ contains(a, 2)

\* ------------------------------------------------------------------------
\* Properties of the constructors, simplify and partial_cmp_bounds
\* (of PureSpec)
\* ------------------------------------------------------------------------

\* What an exclusive-style constructor returns for (s, e): Empty when
\* s >= e, the two-value variant otherwise.
EmptyUnlessAscending(s, e, variant) == IF s >= e THEN Empty ELSE variant

\* C14: inclusive(s, e) is Single(s) when s = e, Empty when s > e and
\* Inclusive(s, e) otherwise; exclusive, start_exclusive and end_exclusive
\* return Empty when s >= e and their two-value variant otherwise; V(s, e)
\* simplified is what the constructor of V returns for (s, e), and every
\* other variant is returned unchanged by simplify().
C14_ConstructorsNormalize ==
    /\ op = "inclusive" =>
          res.range = IF res.start = res.end THEN Single(res.start)
                      ELSE IF res.start > res.end THEN Empty
                      ELSE Inclusive(res.start, res.end)
    /\ op = "exclusive" =>
          res.range = EmptyUnlessAscending(res.start, res.end,
                                           Exclusive(res.start, res.end))
    /\ op = "start_exclusive" =>
          res.range = EmptyUnlessAscending(res.start, res.end,
                                           StartExclusive(res.start, res.end))
    /\ op = "end_exclusive" =>
          res.range = EmptyUnlessAscending(res.start, res.end,
                                           EndExclusive(res.start, res.end))
    /\ op = "simplify" =>
          res.range =
              CASE res.self.k = "Inclusive" -> inclusive(res.self.s, res.self.e)
                [] res.self.k = "Exclusive" -> exclusive(res.self.s, res.self.e)
                [] res.self.k = "StartExclusive" ->
                     start_exclusive(res.self.s, res.self.e)
                [] res.self.k = "EndExclusive" ->
                     end_exclusive(res.self.s, res.self.e)
                [] OTHER -> res.self

\* end_exclusive returned Empty for start = end.
C14_Witness ==
    /\ op = "end_exclusive"
    /\ res.start = 1
    /\ res.end = 1
    /\ res.range = Empty

\* The inverse of a bound ordering: the ordering of the operands swapped.
BoundInverse(o) ==
    CASE o = "Less" -> "Greater"
      [] o = "Greater" -> "Less"
      [] o = "Meets" -> "IsMet"
      [] o = "IsMet" -> "Meets"
      [] o = "Equal" -> "Equal"

\* The rule table for two finite bounds at one value, by inclusivity and side.
EndpointRule(this_b, this_side, other_b, other_side) ==
    CASE this_b = "Included" /\ other_b = "Included" -> "Equal"
      [] this_b = "Included" /\ other_b = "Excluded" ->
           (CASE this_side = "Start" /\ other_side = "Start" -> "Less"
              [] this_side = "End" /\ other_side = "End" -> "Greater"
              [] this_side = "Start" /\ other_side = "End" -> "IsMet"
              [] this_side = "End" /\ other_side = "Start" -> "Meets")
      [] this_b = "Excluded" /\ other_b = "Excluded" ->
           (CASE this_side = other_side -> "Equal"
              [] this_side = "Start" /\ other_side = "End" -> "Greater"
              [] this_side = "End" /\ other_side = "Start" -> "Less")

\* C17: partial_cmp_bounds follows the endpoint rule table for Included vs
\* Excluded, Excluded vs Excluded and Included vs Included at equal values;
\* an Unbounded operand tagged Start is below and one tagged End is above
\* every finite bound; Unbounded vs Unbounded is Equal for the same sides
\* and Start < End otherwise; and swapping the operands together with their
\* side tags yields the inverse ordering.
C17_EndpointRuleTable ==
    op = "partial_cmp_bounds" =>
        LET this == res.this
            other == res.other
            finite(bound) == bound.b # "Unbounded"
        IN /\ is_some(res.ordering)
           /\ (finite(this) /\ finite(other) /\ this.v = other.v
                 /\ ~(this.b = "Excluded" /\ other.b = "Included")) =>
                 res.ordering.val =
                     EndpointRule(this.b, res.this_side, other.b, res.other_side)
           /\ (~finite(this) /\ finite(other)) =>
                 res.ordering.val =
                     IF res.this_side = "Start" THEN "Less" ELSE "Greater"
           /\ (finite(this) /\ ~finite(other)) =>
                 res.ordering.val =
                     IF res.other_side = "Start" THEN "Greater" ELSE "Less"
           /\ (~finite(this) /\ ~finite(other)) =>
                 res.ordering.val =
                     IF res.this_side = res.other_side THEN "Equal"
                     ELSE IF res.this_side = "Start" THEN "Less"
                     ELSE "Greater"
           /\ partial_cmp_bounds(other, res.other_side, this, res.this_side) =
                 Some(BoundInverse(res.ordering.val))

\* partial_cmp_bounds returned Meets for an included end against an excluded
\* start at the same value.
C17_Witness ==
    /\ op = "partial_cmp_bounds"
    /\ res.this = Included(1)
    /\ res.this_side = "End"
    /\ res.other = Excluded(1)
    /\ res.other_side = "Start"
    /\ res.ordering = Some("Meets")

====
